---- MODULE Spec2Model ----
(***************************************************************************)
(* The four Lambda handlers of the todo API (createTodo, getTodos,         *)
(* updateTodo, deleteTodo) over the DynamoDB table "todos" whose primary   *)
(* key is (userID, taskID).                                                *)
(*                                                                         *)
(* A JavaScript value that is `undefined` is the string Undefined; an item *)
(* of the table is a record whose DOMAIN is the set of attributes the item *)
(* has (DynamoDB items are sparse).  A timestamp is the millisecond count  *)
(* that its ISO-8601 text encodes; the text orders as the count does.      *)
(***************************************************************************)
EXTENDS Integers, Sequences, FiniteSets, TLC

\* ------------------------------------------------------------------ bounds
MaxIds == 2        \* number of ids crypto.randomUUID() hands out
MaxClock == 1      \* last instant the clock reaches
MaxRequests == 3   \* number of invocations in a run
MaxInflight == 2   \* number of invocations that run concurrently

\* ---------------------------------------------------------- value universe
Undefined == "undefined"
UserIDs == {"maria123", "john456"}
ClientTaskID == "task-001"
Titles == {"Buy groceries"}
Descriptions == {"Milk, eggs, bread"}
NewDescriptions == {"Oat milk"}
StoreErrorText == "ProvisionedThroughputExceededException"
SyntaxErrorText == "SyntaxError: not valid JSON"

\* crypto.randomUUID(): the n-th id handed out; ids never repeat
randomUUID(n) == "uuid-" \o ToString(n)

\* JavaScript truthiness of a string-or-undefined value, as used by `!x`
Falsy(x) == x = Undefined \/ x = ""

\* a || b
OrElse(a, b) == IF Falsy(a) THEN b ELSE a

VARIABLES
    table,       \* the items of the DynamoDB table "todos"
    now,         \* the clock read by new Date()
    uuidCount,   \* how many ids randomUUID has handed out
    req,         \* the event of the invocation that just ran, until its reply is delivered
    resp,        \* the response of that invocation
    before,      \* the table as that invocation found it
    storeCalls,  \* commands that invocation sent to DynamoDB
    storeError,  \* the error DynamoDB raised to that invocation, if any
    created,     \* keys put by a 200 Create and not removed by a 200 Delete since
    deleted,     \* keys removed by a 200 Delete and not written since
    requests,    \* invocations so far
    inflight     \* the invocations that run concurrently, in the order they started

vars == <<table, now, uuidCount, req, resp, before, storeCalls, storeError,
          created, deleted, requests, inflight>>

\* ------------------------------------------------------------ the table
KeyOf(item) == [userID |-> item.userID, taskID |-> item.taskID]

Keys(t) == {KeyOf(i) : i \in t}

HasKey(t, k) == k \in Keys(t)

ItemAt(t, k) == CHOOSE i \in t : KeyOf(i) = k

\* PutCommand: the item replaces whatever the key held
PutItem(t, item) == {i \in t : KeyOf(i) # KeyOf(item)} \cup {item}

\* QueryCommand with KeyConditionExpression "userID = :uid"
Query(t, uid) == {i \in t : i.userID = uid}

\* a delete that reports the old item and removes nothing
DeleteItem_keeps(t, k) == t

\* DeleteItemCommand
DeleteItem(t, k) == {i \in t : KeyOf(i) # k}

\* UpdateCommand "SET #a = :a, ..." with no ConditionExpression: the named
\* attributes are set on the item of the key, which is created when absent
UpdatedItem_replaces(t, k, names, values) == [a \in names |-> values[a]] @@ k

UpdatedItem(t, k, names, values) ==
    LET old == IF HasKey(t, k) THEN ItemAt(t, k) ELSE k
    IN [a \in names |-> values[a]] @@ old

UpdateItem(t, k, names, values) ==
    {i \in t : KeyOf(i) # k} \cup {UpdatedItem(t, k, names, values)}

\* ------------------------------------------------------------ responses
Response(op, code, message, error, items) ==
    [op |-> op, statusCode |-> code,
     body |-> [message |-> message, error |-> error, items |-> items]]

\* the parts of the body's text
BodyTexts(r) ==
    {r.body.message[i] : i \in 1..Len(r.body.message)} \cup {r.body.error}

NoEvent == [op |-> "none"]

NoResponse == Response("none", 0, <<>>, Undefined, {})

Init ==
    /\ table = {}
    /\ now = 0
    /\ uuidCount = 0
    /\ req = NoEvent
    /\ resp = NoResponse
    /\ before = {}
    /\ storeCalls = 0
    /\ storeError = Undefined
    /\ created = {}
    /\ deleted = {}
    /\ requests = 0
    /\ inflight = <<>>

\* the clock advances between invocations
Tick ==
    /\ req = NoEvent
    /\ now < MaxClock
    /\ now' = now + 1
    /\ UNCHANGED <<table, uuidCount, req, resp, before, storeCalls, storeError,
                   created, deleted, requests, inflight>>

\* no invocation is awaiting its reply and the run may take another one
Idle == req = NoEvent /\ requests < MaxRequests

\* an invocation starts: the event and the table it finds are recorded
Invoke(ev) ==
    /\ requests' = requests + 1
    /\ req' = ev
    /\ before' = table
    /\ UNCHANGED inflight

\* the handler returns before it sends any command to DynamoDB
ReturnEarly(r) ==
    /\ resp' = r
    /\ storeCalls' = 0
    /\ UNCHANGED <<table, storeError, created, deleted>>

\* the command reached DynamoDB and failed: ddb.send throws
StoreFailed(r) ==
    /\ resp' = r
    /\ storeCalls' = 1
    /\ storeError' = StoreErrorText
    /\ UNCHANGED <<table, created, deleted>>

\* API Gateway delivers the response; nothing of the invocation is kept
Reply ==
    /\ req # NoEvent
    /\ req' = NoEvent
    /\ resp' = NoResponse
    /\ before' = {}
    /\ storeCalls' = 0
    /\ storeError' = Undefined
    /\ UNCHANGED <<table, now, uuidCount, created, deleted, requests, inflight>>

\* the owner sent under one of its two names: <<userId, userID>>
OwnerInputs ==
    {<<Undefined, Undefined>>, <<"", Undefined>>, <<"maria123", Undefined>>,
     <<Undefined, "maria123">>, <<Undefined, "john456">>}

NoBody == [none |-> TRUE]

\* ------------------------------------------------------------ createTodo
CreateBody(o, t, d, i) ==
    [userId |-> o[1], userID |-> o[2], title |-> t, description |-> d, taskID |-> i]

\* every owner input with every title; the description and a taskID of the
\* client's vary where the body has an owner under userID and a title
CreateBodies ==
    {CreateBody(o, t, d, i) :
        o \in {p \in OwnerInputs : ~Falsy(p[2])}, t \in Titles,
        d \in {Undefined} \cup Descriptions, i \in {Undefined, ClientTaskID}}
    \cup
    {CreateBody(o, t, d, Undefined) :
        o \in OwnerInputs, t \in {Undefined, ""} \cup Titles, d \in Descriptions}

\* event.body is absent, the text "null", the text of a JSON object, or an
\* object that API Gateway already parsed
BodyKinds == {"undefined", "null", "json", "object"}

CreateEvents ==
    [op : {"create"}, bodyKind : {"json"}, body : CreateBodies]
        \cup [op : {"create"}, bodyKind : BodyKinds \ {"json"}, body : {NoBody}]

\* JSON.parse(event.body) throws unless event.body is JSON text
CreateParseThrows(ev) == ev.bodyKind \in {"undefined", "object"}

CreateMissingFields_ownerOnly(body) == Falsy(body.userID)

\* if (!userID || !title)
CreateMissingFields(body) == Falsy(body.userID) \/ Falsy(body.title)

\* the two clock reads stored the other way round
CreateItem_swapsStamps(body, taskID, t1, t2) ==
    [userID |-> body.userID, taskID |-> taskID, title |-> body.title,
     description |-> body.description, status |-> "pending",
     createdAt |-> t2, updatedAt |-> t1]

\* the item built from the body, the new id and the two clock reads
CreateItem(body, taskID, t1, t2) ==
    [userID |-> body.userID, taskID |-> taskID, title |-> body.title,
     description |-> body.description, status |-> "pending",
     createdAt |-> t1, updatedAt |-> t2]

\* an attribute whose value is undefined is not serialised: neither into the
\* PutItem request nor by JSON.stringify(item) into the response
StripUndefined(item) ==
    [a \in {x \in DOMAIN item :
                x \in {"title", "description"} => item[x] # Undefined} |-> item[a]]

\* catch (error): "Internal server error" + error
CreateError(text) ==
    Response("create", 500, <<"Internal server error", text>>, Undefined, {})

CreateTodo ==
    /\ Idle
    /\ \E ev \in CreateEvents :
        /\ Invoke(ev)
        /\ IF CreateParseThrows(ev) THEN
               /\ ReturnEarly(CreateError(SyntaxErrorText))
               /\ UNCHANGED <<now, uuidCount>>
           ELSE IF ev.bodyKind = "null" THEN
               /\ ReturnEarly(Response("create", 400, <<"Request body is missing">>, Undefined, {}))
               /\ UNCHANGED <<now, uuidCount>>
           ELSE IF CreateMissingFields(ev.body) THEN
               /\ ReturnEarly(Response("create", 400, <<"Missing required fields">>, Undefined, {}))
               /\ UNCHANGED <<now, uuidCount>>
           ELSE
               \* the clock may advance by d between the two new Date() reads
               \E d \in {0, 1} :
                   /\ uuidCount < MaxIds
                   /\ now + d <= MaxClock
                   /\ uuidCount' = uuidCount + 1
                   /\ now' = now + d
                   /\ LET item == CreateItem(ev.body, randomUUID(uuidCount + 1), now, now + d)
                      IN \/ StoreFailed(CreateError(StoreErrorText))
                         \/ /\ table' = PutItem(table, StripUndefined(item))
                            /\ resp' = Response("create", 200, <<>>, Undefined,
                                           {StripUndefined(item)})
                            /\ storeCalls' = 1
                            /\ created' = created \cup {KeyOf(item)}
                            /\ deleted' = deleted \ {KeyOf(item)}
                            /\ UNCHANGED storeError

\* -------------------------------------------------------------- getTodos
\* ids a client can name: the one it made up and those handed out so far
KnownTaskIDs == {ClientTaskID} \cup {randomUUID(n) : n \in 1..uuidCount}

ListEvents ==
    {[op |-> "list", queryUserId |-> o[1], queryUserID |-> o[2]] : o \in OwnerInputs}

\* event.queryStringParameters?.userId || event.queryStringParameters?.userID
QueryOwner(ev) == OrElse(ev.queryUserId, ev.queryUserID)

GetTodos ==
    /\ Idle
    /\ \E ev \in ListEvents :
        /\ Invoke(ev)
        /\ UNCHANGED <<now, uuidCount>>
        /\ IF Falsy(QueryOwner(ev)) THEN
               ReturnEarly(Response("list", 400, <<"Missing userId in query parameters">>, Undefined, {}))
           ELSE
               \/ StoreFailed(Response("list", 500, <<"Internal server error">>, Undefined, {}))
               \/ /\ resp' = Response("list", 200, <<>>, Undefined, Query(table, QueryOwner(ev)))
                  /\ storeCalls' = 1
                  /\ UNCHANGED <<table, storeError, created, deleted>>

\* ------------------------------------------------------------ updateTodo
\* every subset of the three fields, and a field the handler does not know
\* beside none of them or beside status
UpdateBodies ==
    {b \in [title : {Undefined, ""},
            description : {Undefined} \cup NewDescriptions,
            status : {Undefined, "completed"},
            priority : {Undefined, "high"}] :
        b.priority = Undefined \/ (b.title = Undefined /\ b.description = Undefined)}

UpdatableFields == {"title", "description", "status"}

\* every field is set, whether the body carries it or not
UpdateNames_everyField(body) == UpdatableFields

\* for (const key of ["title", "description", "status"]) if (body[key] !== undefined)
UpdateNames(body) == {k \in UpdatableFields : body[k] # Undefined}

\* the event of a PUT /todos/{taskID}?userId=...
UpdateEvent(i, o, kind, b) ==
    [op |-> "update", pathTaskID |-> i, queryUserId |-> o[1], queryUserID |-> o[2],
     bodyKind |-> kind, body |-> b]

\* each owner under one of the two names
OwnersGiven == {<<"maria123", Undefined>>, <<Undefined, "john456">>}

\* every body, and an absent or null body, on every key with the owner under one
\* name; every identifier input, missing ones included, with the body
\* {status: "completed"}
UpdateEvents ==
    {UpdateEvent(i, o, "json", b) : i \in KnownTaskIDs, o \in OwnersGiven, b \in UpdateBodies}
    \cup
    {UpdateEvent(i, o, kind, NoBody) :
        i \in KnownTaskIDs, o \in OwnersGiven, kind \in {"undefined", "null"}}
    \cup
    {UpdateEvent(i, o, "json", b) :
        i \in {Undefined} \cup KnownTaskIDs, o \in OwnerInputs,
        b \in {c \in UpdateBodies : UpdateNames(c) = {"status"} /\ c.priority = Undefined}}

\* body[key] throws a TypeError when the body is undefined or null
UpdateBodyThrows(ev) == ev.bodyKind \in {"undefined", "null"}

UpdateTodo ==
    /\ Idle
    /\ \E ev \in UpdateEvents :
        LET taskID == ev.pathTaskID
            userId == QueryOwner(ev)
            key == [userID |-> userId, taskID |-> taskID]
        IN
        /\ Invoke(ev)
        /\ UNCHANGED <<now, uuidCount>>
        /\ IF Falsy(taskID) \/ Falsy(userId) THEN
               ReturnEarly(Response("update", 400, <<"Missing taskID or userId">>, Undefined, {}))
           ELSE IF UpdateBodyThrows(ev) THEN
               ReturnEarly(Response("update", 500, <<"Internal server error">>, Undefined, {}))
           ELSE IF UpdateNames(ev.body) = {} THEN
               ReturnEarly(Response("update", 400, <<"No valid fields to update">>, Undefined, {}))
           ELSE
               \/ StoreFailed(Response("update", 500, <<"Internal server error">>, Undefined, {}))
               \/ /\ table' = UpdateItem(table, key, UpdateNames(ev.body), ev.body)
                  /\ resp' = Response("update", 200, <<>>, Undefined,
                                 {UpdatedItem(table, key, UpdateNames(ev.body), ev.body)})
                  /\ storeCalls' = 1
                  /\ deleted' = deleted \ {key}
                  /\ UNCHANGED <<storeError, created>>

\* ------------------------------------------------------------ deleteTodo
DeleteEvents ==
    {[op |-> "delete", pathUserId |-> o[1], pathUserID |-> o[2], pathTaskID |-> i] :
        o \in OwnerInputs, i \in {Undefined} \cup KnownTaskIDs}

DeleteTodo ==
    /\ Idle
    /\ \E ev \in DeleteEvents :
        LET userID == ev.pathUserID
            taskID == ev.pathTaskID
            key == [userID |-> userID, taskID |-> taskID]
        IN
        /\ Invoke(ev)
        /\ UNCHANGED <<now, uuidCount>>
        /\ IF Falsy(userID) \/ Falsy(taskID) THEN
               ReturnEarly(Response("delete", 400,
                   <<"Missing 'userID' or 'taskID' in path parameters">>, Undefined, {}))
           ELSE
               \/ StoreFailed(Response("delete", 500,
                      <<"Internal server error while deleting todo">>, StoreErrorText, {}))
               \/ IF ~HasKey(table, key) THEN
                      /\ resp' = Response("delete", 404,
                             <<"Todo with userID '", userID, "' and taskID '", taskID,
                               "' not found">>, Undefined, {})
                      /\ storeCalls' = 1
                      /\ UNCHANGED <<table, storeError, created, deleted>>
                  ELSE
                      /\ table' = DeleteItem(table, key)
                      /\ resp' = Response("delete", 200,
                             <<"Todo '", taskID, "' deleted successfully for user '",
                               userID, "'">>, Undefined, {})
                      /\ storeCalls' = 1
                      /\ created' = created \ {key}
                      /\ deleted' = deleted \cup {key}
                      /\ UNCHANGED storeError

Next ==
    \/ Tick
    \/ CreateTodo
    \/ GetTodos
    \/ UpdateTodo
    \/ DeleteTodo
    \/ Reply

Spec == Init /\ [][Next]_vars

\* ============================================== concurrent invocations
\* Each handler awaits one command: between its start and the moment DynamoDB
\* applies the command, other invocations start and their commands are
\* applied. DynamoDB applies one command to one item atomically; what the
\* handler does after the await reads nothing shared, so it is part of the
\* step that applies the command.

\* an invocation: its event, "sent" while its command is on the way and
\* "returned" after, its response, and the rank of its command among those
\* DynamoDB has applied (0: none)
Invocation(ev, pc, r, rank) == [ev |-> ev, pc |-> pc, resp |-> r, rank |-> rank]

Slots == 1..Len(inflight)

\* commands DynamoDB has answered so far
Applied == Cardinality({i \in Slots : inflight[i].rank > 0})

\* the record one successful createTodo of maria123 leaves in an empty table
ConcInitItems ==
    {StripUndefined(CreateItem(CreateBody(<<Undefined, "maria123">>, t, d, Undefined),
                               randomUUID(1), 0, u)) :
        t \in Titles, d \in {Undefined} \cup Descriptions, u \in {0, 1}}

ConcInit ==
    /\ \E item \in ConcInitItems :
          /\ table = {item}
          /\ now = item.updatedAt
          /\ created = {KeyOf(item)}
    /\ uuidCount = 1
    /\ req = NoEvent
    /\ resp = NoResponse
    /\ before = {}
    /\ storeCalls = 0
    /\ storeError = Undefined
    /\ deleted = {}
    /\ requests = 1
    /\ inflight = <<>>

\* the concurrent invocations address the record of maria123
ConcUpdateEvents ==
    {e \in UpdateEvents :
        /\ e.pathTaskID = randomUUID(1)
        /\ e.queryUserId = "maria123"
        /\ e.bodyKind = "json"
        /\ e.body.priority = Undefined}

ConcDeleteEvents ==
    {e \in DeleteEvents :
        e.pathUserID = "maria123" /\ e.pathTaskID \in {Undefined, randomUUID(1)}}

\* updateTodo up to its await: the response it returns early, if any
UpdateEarly(ev) ==
    IF Falsy(ev.pathTaskID) \/ Falsy(QueryOwner(ev)) THEN
        Response("update", 400, <<"Missing taskID or userId">>, Undefined, {})
    ELSE IF UpdateBodyThrows(ev) THEN
        Response("update", 500, <<"Internal server error">>, Undefined, {})
    ELSE IF UpdateNames(ev.body) = {} THEN
        Response("update", 400, <<"No valid fields to update">>, Undefined, {})
    ELSE NoResponse

\* deleteTodo up to its await
DeleteEarly(ev) ==
    IF Falsy(ev.pathUserID) \/ Falsy(ev.pathTaskID) THEN
        Response("delete", 400,
            <<"Missing 'userID' or 'taskID' in path parameters">>, Undefined, {})
    ELSE NoResponse

\* a handler starts and runs up to its await or to its early return
Start(ev, early) ==
    /\ Len(inflight) < MaxInflight
    /\ requests' = requests + 1
    /\ inflight' = Append(inflight,
           IF early = NoResponse THEN Invocation(ev, "sent", NoResponse, 0)
           ELSE Invocation(ev, "returned", early, 0))
    /\ UNCHANGED <<table, now, uuidCount, req, resp, before, storeCalls, storeError,
                   created, deleted>>

UpdateStart == \E ev \in ConcUpdateEvents : Start(ev, UpdateEarly(ev))

DeleteStart == \E ev \in ConcDeleteEvents : Start(ev, DeleteEarly(ev))

\* the await of invocation i ends with response r
Return(i, r) ==
    /\ inflight' = [inflight EXCEPT ![i] = Invocation(inflight[i].ev, "returned", r, Applied + 1)]
    /\ UNCHANGED <<now, uuidCount, req, resp, before, storeCalls, storeError, requests>>

\* DynamoDB applies or fails the UpdateCommand of invocation i
UpdateApply ==
    \E i \in Slots :
        LET ev == inflight[i].ev
            key == [userID |-> QueryOwner(ev), taskID |-> ev.pathTaskID]
        IN
        /\ ev.op = "update"
        /\ inflight[i].pc = "sent"
        /\ \/ /\ Return(i, Response("update", 500, <<"Internal server error">>, Undefined, {}))
              /\ UNCHANGED <<table, created, deleted>>
           \/ /\ table' = UpdateItem(table, key, UpdateNames(ev.body), ev.body)
              /\ Return(i, Response("update", 200, <<>>, Undefined,
                                {UpdatedItem(table, key, UpdateNames(ev.body), ev.body)}))
              /\ deleted' = deleted \ {key}
              /\ UNCHANGED created

\* DynamoDB applies or fails the DeleteItemCommand of invocation i
DeleteApply ==
    \E i \in Slots :
        LET ev == inflight[i].ev
            key == [userID |-> ev.pathUserID, taskID |-> ev.pathTaskID]
        IN
        /\ ev.op = "delete"
        /\ inflight[i].pc = "sent"
        /\ \/ /\ Return(i, Response("delete", 500,
                       <<"Internal server error while deleting todo">>, StoreErrorText, {}))
              /\ UNCHANGED <<table, created, deleted>>
           \/ IF ~HasKey(table, key) THEN
                  /\ Return(i, Response("delete", 404,
                         <<"Todo with userID '", key.userID, "' and taskID '", key.taskID,
                           "' not found">>, Undefined, {}))
                  /\ UNCHANGED <<table, created, deleted>>
              ELSE
                  /\ table' = DeleteItem(table, key)
                  /\ Return(i, Response("delete", 200,
                         <<"Todo '", key.taskID, "' deleted successfully for user '",
                           key.userID, "'">>, Undefined, {}))
                  /\ created' = created \ {key}
                  /\ deleted' = deleted \cup {key}

ConcNext ==
    \/ UpdateStart
    \/ UpdateApply
    \/ DeleteStart
    \/ DeleteApply

SpecConc == ConcInit /\ [][ConcNext]_vars

\* =================================================================== claims
\* the key the last updateTodo or deleteTodo invocation addressed
UpdateKey == [userID |-> QueryOwner(req), taskID |-> req.pathTaskID]

DeleteKey == [userID |-> req.pathUserID, taskID |-> req.pathTaskID]

\* updateTodo was invoked with both identifiers and a body naming a field
ValidUpdate ==
    /\ req.op = "update"
    /\ ~Falsy(req.pathTaskID)
    /\ ~Falsy(QueryOwner(req))
    /\ req.bodyKind = "json"
    /\ \E a \in {"title", "description", "status"} : req.body[a] # Undefined

\* the fields of {title, description, status} the update's body supplies
Supplied == {a \in {"title", "description", "status"} : req.body[a] # Undefined}

\* a 200 updateTodo on a key the table held
UpdatedExisting ==
    /\ ValidUpdate
    /\ resp.statusCode = 200
    /\ HasKey(before, UpdateKey)

\* C1: UpdatePartial on a key that is not in the store, with both
\* identifiers and at least one field, answers 404 (not 200, not 500) and
\* leaves the store unchanged, when the store itself does not fail.
C1_UpdateOfAbsentKeyIsNotFound ==
    (ValidUpdate /\ storeError = Undefined /\ ~HasKey(before, UpdateKey))
        => (resp.statusCode = 404 /\ table = before)

\* C2: a 200 ListByOwner(owner) returns exactly the records written by a
\* successful Create under that owner and not removed by a successful Delete
\* since, and no record of another owner.
C2_ListIsCreatedMinusDeleted ==
    (req.op = "list" /\ resp.statusCode = 200)
        => /\ Keys(resp.body.items) = {k \in created : k.userID = QueryOwner(req)}
           /\ \A i \in resp.body.items : i.userID = QueryOwner(req)

\* C3: Delete with both identifiers, when the store does not fail, answers
\* 200 and removes the record exactly when the key was present, and answers
\* 404 leaving the store unchanged when it was absent; a key removed by a 200
\* Delete and not written since is absent from the table, so a further
\* Delete of it answers 404 and a ListByOwner does not return it.
C3_DeleteRemovesExactlyWhenPresent ==
    /\ (req.op = "delete" /\ ~Falsy(req.pathUserID) /\ ~Falsy(req.pathTaskID)
            /\ storeError = Undefined)
        => IF HasKey(before, DeleteKey)
           THEN /\ resp.statusCode = 200
                /\ table = before \ {ItemAt(before, DeleteKey)}
                /\ ~HasKey(table, DeleteKey)
           ELSE /\ resp.statusCode = 404
                /\ table = before
    /\ \A k \in deleted : ~HasKey(table, k)
    /\ (req.op = "list" /\ resp.statusCode = 200)
        => Keys(resp.body.items) \cap deleted = {}

C3_Witness_DeletedThenDeletedAgain ==
    /\ req.op = "delete"
    /\ resp.statusCode = 404
    /\ DeleteKey \in deleted
    /\ storeError = Undefined

\* C4: a 200 UpdatePartial on an existing record sets its updatedAt to the
\* time of the update, strictly later than the updatedAt it had before.
C4_UpdateRefreshesUpdatedAt ==
    (UpdatedExisting /\ "updatedAt" \in DOMAIN ItemAt(before, UpdateKey))
        => /\ "updatedAt" \in DOMAIN ItemAt(table, UpdateKey)
           /\ ItemAt(table, UpdateKey).updatedAt = now
           /\ ItemAt(table, UpdateKey).updatedAt > ItemAt(before, UpdateKey).updatedAt

\* C5: a 200 UpdatePartial on an existing record writes the supplied fields
\* of {title, description, status} and nothing else: the unsupplied ones,
\* owner, taskId and createdAt keep their value, a field of the body outside
\* the three is not written, and every other record is unchanged.
C5_UpdateWritesOnlySuppliedFields ==
    UpdatedExisting =>
        LET old == ItemAt(before, UpdateKey)
            new == ItemAt(table, UpdateKey)
        IN /\ HasKey(table, UpdateKey)
           /\ DOMAIN new \ {"updatedAt"} = (DOMAIN old \cup Supplied) \ {"updatedAt"}
           /\ \A a \in Supplied : new[a] = req.body[a]
           /\ \A a \in DOMAIN old \ (Supplied \cup {"updatedAt"}) : new[a] = old[a]
           /\ "priority" \notin DOMAIN new
           /\ {i \in table : KeyOf(i) # UpdateKey} = {i \in before : KeyOf(i) # UpdateKey}
           /\ resp.body.items = {new}

\* a created record is updated with a body that names status and an unknown field
C5_Witness_PartialUpdateOfCreated ==
    /\ UpdatedExisting
    /\ UpdateKey \in created
    /\ Supplied = {"status"}
    /\ req.body.priority # Undefined
    /\ ItemAt(table, UpdateKey).title \in Titles
    /\ Cardinality(table) > 1

\* C6: every Create with non-empty owner and title, with or without a
\* description and whatever taskID the body carries, succeeds (the store not
\* failing) and persists and returns a record with createdAt = updatedAt,
\* status "pending" and a taskId that no earlier Create generated.
C6_CreateStampsOnceAndFreshId ==
    (req.op = "create" /\ req.bodyKind = "json" /\ ~Falsy(req.body.userID)
            /\ ~Falsy(req.body.title) /\ storeError = Undefined)
        => /\ resp.statusCode = 200
           /\ \E i \in resp.body.items :
                 /\ resp.body.items = {i}
                 /\ i \in table
                 /\ i.userID = req.body.userID
                 /\ i.title = req.body.title
                 /\ i.createdAt = i.updatedAt
                 /\ i.status = "pending"
                 /\ i.taskID # req.body.taskID
                 /\ \A j \in before : j.taskID # i.taskID

\* C7: a handler that answers 400 has sent nothing to the store and the
\* store is unchanged; Create whose body lacks a non-empty owner or title
\* answers 400 and the owner's partition shows no new record.
C7_ValidationPrecedesStore ==
    /\ resp.statusCode = 400 => (storeCalls = 0 /\ table = before)
    /\ (req.op = "create" /\ req.bodyKind = "json"
            /\ (Falsy(req.body.userID) \/ Falsy(req.body.title)))
        => /\ resp.statusCode = 400
           /\ storeCalls = 0
           /\ table = before

\* Create without a title is rejected while the table holds records
C7_Witness_CreateWithoutTitle ==
    /\ req.op = "create"
    /\ req.bodyKind = "json"
    /\ ~Falsy(req.body.userID)
    /\ Falsy(req.body.title)
    /\ resp.statusCode = 400
    /\ Query(table, req.body.userID) # {}

\* C8: when the store call fails the handler answers 500 and the body does
\* not contain the text of the store's error.
C8_StoreErrorIsNotLeaked ==
    storeError # Undefined
        => (resp.statusCode = 500 /\ storeError \notin BodyTexts(resp))

\* C9: every stored record has a non-empty title.
C9_EveryRecordHasTitle ==
    \A i \in table : "title" \in DOMAIN i /\ ~Falsy(i.title)

\* the owner as the last invocation carried it: <<userId, userID>>
OwnerSent ==
    CASE req.op = "create" /\ req.bodyKind = "json" -> <<req.body.userId, req.body.userID>>
      [] req.op \in {"list", "update"} -> <<req.queryUserId, req.queryUserID>>
      [] req.op = "delete" -> <<req.pathUserId, req.pathUserID>>
      [] OTHER -> <<Undefined, Undefined>>

\* the rest of the last invocation's input is what its handler requires
RestIsValid ==
    CASE req.op = "create" -> req.bodyKind = "json" /\ ~Falsy(req.body.title)
      [] req.op = "list" -> TRUE
      [] req.op = "update" ->
            /\ ~Falsy(req.pathTaskID)
            /\ req.bodyKind = "json"
            /\ \E a \in {"title", "description", "status"} : req.body[a] # Undefined
      [] req.op = "delete" -> ~Falsy(req.pathTaskID)
      [] OTHER -> FALSE

\* C10: each of the four handlers accepts a non-empty owner under either
\* name, userId or userID: such a request is not rejected with 400.
C10_OwnerAcceptedUnderEitherName ==
    (RestIsValid /\ (~Falsy(OwnerSent[1]) \/ ~Falsy(OwnerSent[2])))
        => resp.statusCode # 400

\* C11: in every reachable state every record of the store that carries
\* timestamps carries both, with createdAt <= updatedAt; the clock never
\* goes back and may advance between any two reads of it.
C11_CreatedNotAfterUpdated ==
    \A i \in table :
        /\ ("createdAt" \in DOMAIN i) = ("updatedAt" \in DOMAIN i)
        /\ "createdAt" \in DOMAIN i => i.createdAt <= i.updatedAt

\* a record whose two stamps differ has been updated with 200
C11_Witness_UpdatedRecordWithTwoStamps ==
    /\ UpdatedExisting
    /\ "createdAt" \in DOMAIN ItemAt(table, UpdateKey)
    /\ ItemAt(table, UpdateKey).createdAt < ItemAt(table, UpdateKey).updatedAt

\* C12: Create or UpdatePartial whose body is absent, null or carries none
\* of the expected fields answers 400 and never 500.
C12_MissingBodyIsValidationError ==
    /\ (req.op = "create" /\ req.bodyKind \in {"undefined", "null"})
        => resp.statusCode = 400
    /\ (req.op = "create" /\ req.bodyKind = "json"
            /\ req.body.userID = Undefined /\ req.body.title = Undefined)
        => resp.statusCode = 400
    /\ (req.op = "update" /\ ~Falsy(req.pathTaskID) /\ ~Falsy(QueryOwner(req))
            /\ (req.bodyKind \in {"undefined", "null"}
                    \/ (req.bodyKind = "json" /\ Supplied = {})))
        => resp.statusCode = 400

\* the key invocation i of the concurrent run addresses
SlotKey(i) ==
    IF inflight[i].ev.op = "update"
    THEN [userID |-> QueryOwner(inflight[i].ev), taskID |-> inflight[i].ev.pathTaskID]
    ELSE [userID |-> inflight[i].ev.pathUserID, taskID |-> inflight[i].ev.pathTaskID]

\* invocation i has returned 200 for operation op
Returned200(i, op) ==
    /\ inflight[i].ev.op = op
    /\ inflight[i].pc = "returned"
    /\ inflight[i].resp.statusCode = 200

\* the fields of {title, description, status} the body of invocation i supplies
SlotSupplied(i) ==
    {a \in {"title", "description", "status"} : inflight[i].ev.body[a] # Undefined}

\* C13: once a Delete of a key has returned 200, the key is not in the store
\* (so no ListByOwner returns it), whatever UpdatePartial requests on the key
\* were in flight or are issued afterwards.
C13_DeletedKeyStaysDeleted ==
    \A i \in Slots : Returned200(i, "delete") => ~HasKey(table, SlotKey(i))

\* C14: when two UpdatePartial requests on one key that the store holds, with
\* disjoint sets of fields, have both returned 200, and nothing else has
\* written or deleted the key, the stored record carries the values of both,
\* in whatever order the store applied them.
C14_DisjointUpdatesBothKept ==
    \A i, j \in Slots :
        ( /\ i # j
          /\ Returned200(i, "update")
          /\ Returned200(j, "update")
          /\ SlotKey(i) = SlotKey(j)
          /\ SlotKey(i) \in created
          /\ SlotSupplied(i) \cap SlotSupplied(j) = {}
          /\ \A k \in Slots \ {i, j} : inflight[k].rank = 0 \/ inflight[k].resp.statusCode # 200 )
        => /\ HasKey(table, SlotKey(i))
           /\ \A a \in SlotSupplied(i) :
                 a \in DOMAIN ItemAt(table, SlotKey(i))
                     /\ ItemAt(table, SlotKey(i))[a] = inflight[i].ev.body[a]
           /\ \A a \in SlotSupplied(j) :
                 a \in DOMAIN ItemAt(table, SlotKey(i))
                     /\ ItemAt(table, SlotKey(i))[a] = inflight[j].ev.body[a]

\* two updates of disjoint fields were in flight together, the store applied
\* the later-started one first, and both have returned 200
C14_Witness_OverlappingDisjointUpdates ==
    \E i, j \in Slots :
        /\ i < j
        /\ Returned200(i, "update")
        /\ Returned200(j, "update")
        /\ SlotKey(i) = SlotKey(j)
        /\ SlotKey(i) \in created
        /\ SlotSupplied(i) # {}
        /\ SlotSupplied(j) # {}
        /\ SlotSupplied(i) \cap SlotSupplied(j) = {}
        /\ inflight[j].rank < inflight[i].rank
        /\ \A k \in Slots \ {i, j} : inflight[k].rank = 0 \/ inflight[k].resp.statusCode # 200

====
